---- MODULE Spec2Model ----
(***************************************************************************)
(* Cortex frontend: the client-side freshness layer (hooks useAgent,       *)
(* useGraph, useBrainStats over a TanStack Query client) and the           *)
(* GraphVisualizer component that consumes the graph query.                *)
(*                                                                         *)
(* Time is counted in seconds (the source's 60000 ms and 30000 ms are 60   *)
(* and 30).  The query client is the library the hooks configure; its      *)
(* observable rules (staleness test, fetch de-duplication, silent cancel   *)
(* on an invalidation refetch, retry counting, cancelRetry on the last     *)
(* unsubscribe) are modelled as the options written in the hooks drive     *)
(* them.                                                                   *)
(***************************************************************************)
EXTENDS Integers, Sequences, FiniteSets, TLC

VARIABLES tick, q, net, nextFid, srv, agent, thinkNet, nextThink, view, ev, owed,
          notes, dash

vars == <<tick, q, net, nextFid, srv, agent, thinkNet, nextThink, view, ev, owed, notes, dash>>

\* ---------------------------------------------------------------- bounds
MaxTick == 4
MaxFetches == 3
MaxThinks == 1
MaxNotes == 2
MaxMounts == 2
MaxSubmits == 2
MaxRefresh == 2

\* The instants at which the clock is observed, in seconds: 0, 1, 30, 60, 61 and
\* every second from there on.
Instants == <<0, 1, 30, 60, 61>>

TimeAt(i) == IF i < Len(Instants) THEN Instants[i + 1] ELSE 61 + (i + 1 - Len(Instants))

\* Date.now(), in seconds.
Now == TimeAt(tick)

\* ------------------------------------------------------- hook options
Keys == {"graph", "brainStats"}

NoData == -1
NoNode == "none"

useGraph_staleTimeDefault == [staleTime |-> 0, retry |-> 1, refetchOnWindowFocus |-> "false"]
useGraph_retryDefault == [staleTime |-> 60, retry |-> 3, refetchOnWindowFocus |-> "false"]
useGraph_focusAlways == [staleTime |-> 60, retry |-> 1, refetchOnWindowFocus |-> "always"]
useGraph == [staleTime |-> 60, retry |-> 1, refetchOnWindowFocus |-> "false"]

useBrainStats_staleTimeDefault == [staleTime |-> 0, retry |-> 1, refetchOnWindowFocus |-> "false"]
useBrainStats == [staleTime |-> 30, retry |-> 1, refetchOnWindowFocus |-> "false"]

Options(key) == IF key = "graph" THEN useGraph ELSE useBrainStats

\* ------------------------------------------------------- server payloads
\* GET /api/graph answers with the graph as of the server's write count.  A
\* label is the sequence of its characters; data is the node's attribute map.
Payloads ==
  << [nodes |-> << [id |-> "A", type |-> "Thought", label |-> <<"a">>, data |-> "da"],
                   [id |-> "B", type |-> "Person",  label |-> <<"b">>, data |-> "db"] >>,
      edges |-> << [source |-> "A", target |-> "B", type |-> "r"],
                   [source |-> "A", target |-> "B", type |-> "r"],
                   [source |-> "A", target |-> "D", type |-> "r"] >>],
     [nodes |-> << [id |-> "B", type |-> "Person",  label |-> <<"b">>, data |-> "db"],
                   [id |-> "C", type |-> "Project",
                    label |-> <<"p","r","o","j","e","c","t","-","c","o","r","t","e","x","-","2">>,
                    data |-> "dc"] >>,
      edges |-> << [source |-> "C", target |-> "B", type |-> "r"],
                   [source |-> "B", target |-> "A", type |-> "r"] >>],
     [nodes |-> << >>,
      edges |-> << [source |-> "B", target |-> "C", type |-> "r"] >>],
     [nodes |-> << [id |-> "C", type |-> "Project", label |-> <<"c">>, data |-> "dc"],
                   [id |-> "A", type |-> "Thought", label |-> <<"a">>, data |-> "da"],
                   [id |-> "E", type |-> "Place",   label |-> <<"e">>, data |-> "de"] >>,
      edges |-> << [source |-> "E", target |-> "A", type |-> "r"] >>] >>

\* Payloads with entries that miss a required property: a node without label,
\* a node without id and an edge without source, an edge without target.
Malformed ==
  << [nodes |-> << [id |-> "A", type |-> "Thought", label |-> <<"a">>, data |-> "da"],
                   [id |-> "B", type |-> "Person", data |-> "db"] >>,
      edges |-> << [source |-> "A", target |-> "B", type |-> "r"] >>],
     [nodes |-> << [id |-> "A", type |-> "Thought", label |-> <<"a">>, data |-> "da"],
                   [type |-> "Person", label |-> <<"x">>, data |-> "dx"] >>,
      edges |-> << [target |-> "A", type |-> "r"] >>],
     [nodes |-> << [id |-> "A", type |-> "Thought", label |-> <<"a">>, data |-> "da"],
                   [id |-> "B", type |-> "Person",  label |-> <<"b">>, data |-> "db"] >>,
      edges |-> << [source |-> "A", type |-> "r"],
                   [source |-> "A", target |-> "B", type |-> "r"] >>] >>

\* The versions below NoData stand for the malformed payloads.
getGraph(ver) ==
  IF ver < NoData THEN Malformed[NoData - ver] ELSE Payloads[(ver % Len(Payloads)) + 1]

\* The value of property f of entry r: undefined when the entry has none.
Undefined == "undefined"

Get(r, f) == IF f \in DOMAIN r THEN r[f] ELSE Undefined

NodeIds(g) == {Get(g.nodes[i], "id") : i \in 1..Len(g.nodes)}


\* ------------------------------------------------------- query cache
\* One query of the client: its state, the retryer of its current fetch
\* (fid, attempts, waiting, retryCancelled) and the number of mounted observers.
\* why is the set of grounds that held when the current fetch was started;
\* invalBy is the think response that was recorded when it was last invalidated.
NewQuery ==
  [exists |-> FALSE, data |-> NoData, dataUpdatedAt |-> 0, isInvalidated |-> FALSE,
   fetching |-> FALSE, waiting |-> FALSE, status |-> "pending", failureCount |-> 0,
   fid |-> 0, attempts |-> 0, retryCancelled |-> FALSE, observers |-> 0, why |-> {},
   invalBy |-> 0]

\* Stale: no data yet, invalidated, or staleTime elapsed since dataUpdatedAt.
isStale(s, key, t) ==
  \/ s.data = NoData
  \/ s.isInvalidated
  \/ t >= s.dataUpdatedAt + Options(key).staleTime

\* isLoading of the query result: first load in progress.
isLoading(s) == s.data = NoData /\ s.fetching

\* refetchOnMount keeps its default (refetch when stale).
shouldFetchOnMount(s, key, t) == isStale(s, key, t)

shouldFetchOnWindowFocus(s, key, t) ==
  \/ Options(key).refetchOnWindowFocus = "always"
  \/ Options(key).refetchOnWindowFocus = "true" /\ isStale(s, key, t)

Grounds(s, key, t) ==
  (IF s.data = NoData THEN {"noSnapshot"} ELSE {})
  \cup (IF s.isInvalidated THEN {"invalidated"} ELSE {})
  \cup (IF s.data # NoData /\ t >= s.dataUpdatedAt + Options(key).staleTime
        THEN {"expired"} ELSE {})

\* A cache state c is [q, net, nextFid].  Issue starts a new fetch of key: a new
\* retryer and one HTTP request, answered with the server's state ver.  The
\* request of a superseded fetch stays on the wire: the query functions pass no
\* abort signal to axios.
Issue(c, key, ver, t) ==
  LET s == c.q[key] IN
  [q |-> [c.q EXCEPT ![key] =
            [s EXCEPT !.fetching = TRUE, !.waiting = FALSE, !.failureCount = 0,
                      !.fid = c.nextFid[key], !.attempts = 1, !.retryCancelled = FALSE,
                      !.status = IF s.data = NoData THEN "pending" ELSE s.status,
                      !.why = Grounds(s, key, t)]],
   net |-> c.net \cup {[key |-> key, fid |-> c.nextFid[key], ver |-> ver]},
   nextFid |-> [c.nextFid EXCEPT ![key] = @ + 1]]

\* query.fetch: while a fetch is outstanding, a trigger with cancelRefetch on a
\* query that has data silently cancels it and starts again; any other trigger
\* joins the outstanding fetch (and lets its retries continue).
FetchQuery_alwaysRestart(c, key, cancelRefetch, ver, t) == Issue(c, key, ver, t)

FetchQuery(c, key, cancelRefetch, ver, t) ==
  LET s == c.q[key] IN
  IF s.fetching
    THEN IF s.data # NoData /\ cancelRefetch
           THEN Issue(c, key, ver, t)
           ELSE [c EXCEPT !.q[key].retryCancelled = FALSE]
    ELSE Issue(c, key, ver, t)

\* queryClient.invalidateQueries({ queryKey: [key] }): mark a cached query
\* invalidated and refetch it when it has an observer (cancelRefetch defaults
\* to true).  A key that is not in the cache matches nothing.
invalidateQueries(c, key, recorded, ver, t) ==
  IF ~c.q[key].exists THEN c
  ELSE LET c1 == [c EXCEPT !.q[key].isInvalidated = TRUE, !.q[key].invalBy = recorded] IN
       IF c1.q[key].observers > 0 THEN FetchQuery(c1, key, TRUE, ver, t) ELSE c1

\* A new observer subscribes (useQuery on mount).
Subscribe(c, key, ver, t) ==
  LET c1 == [c EXCEPT !.q[key].exists = TRUE, !.q[key].observers = @ + 1] IN
  IF shouldFetchOnMount(c1.q[key], key, t) THEN FetchQuery(c1, key, FALSE, ver, t) ELSE c1

\* The last observer unsubscribes: the outstanding attempt goes on, further
\* retries are cancelled.
Unsubscribe(c, key) ==
  LET s == c.q[key] IN
  [c EXCEPT !.q[key] = [s EXCEPT !.observers = @ - 1,
                                 !.retryCancelled = IF s.fetching /\ s.observers = 1
                                                      THEN TRUE ELSE @]]

\* The request req is the outstanding attempt of its query's current fetch.
Live(c, req) ==
  LET s == c.q[req.key] IN s.fetching /\ ~s.waiting /\ s.fid = req.fid

\* The attempt fails: retry while failureCount < retry and retries are
\* not cancelled, otherwise the query goes to the error state, keeping its data.
Failed(s, key) ==
  IF s.retryCancelled \/ s.failureCount >= Options(key).retry
    THEN [s EXCEPT !.fetching = FALSE, !.status = "error", !.failureCount = @ + 1]
    ELSE [s EXCEPT !.waiting = TRUE, !.failureCount = @ + 1]

Succeeded(s, req, t) ==
  [s EXCEPT !.data = req.ver, !.dataUpdatedAt = t, !.isInvalidated = FALSE,
            !.fetching = FALSE, !.status = "success", !.failureCount = 0]

\* A response arrives; the response of a cancelled fetch is dropped.
Settle(c, req, ok, t) ==
  LET c1 == [c EXCEPT !.net = @ \ {req}] IN
  IF ~Live(c, req) THEN c1
  ELSE [c1 EXCEPT !.q[req.key] =
          IF ok THEN Succeeded(@, req, t) ELSE Failed(@, req.key)]

\* The retry delay is over: issue the next attempt, or give up when the
\* retries were cancelled meanwhile.
Retry(c, key, ver) ==
  LET s == c.q[key] IN
  IF s.retryCancelled
    THEN [c EXCEPT !.q[key] = [s EXCEPT !.fetching = FALSE, !.waiting = FALSE,
                                        !.status = "error", !.failureCount = @ + 1]]
    ELSE [c EXCEPT !.q[key] = [s EXCEPT !.waiting = FALSE, !.attempts = @ + 1],
                   !.net = @ \cup {[key |-> key, fid |-> s.fid, ver |-> ver]}]


\* ------------------------------------------------------- GraphVisualizer
EmptyMap == [id \in {} |-> 0]

\* Lengths are in tenths of a pixel.  cos and sin of k twelfths of a full turn,
\* in thousandths.
CosTab == <<1000, 866, 500, 0, -500, -866, -1000, -866, -500, 0, 500, 866>>
SinTab == <<0, 500, 866, 1000, 866, 500, 0, -500, -866, -1000, -866, -500>>

\* The point at angle (i / n) * 2 * PI and distance radius (in pixels) from the
\* centre (400, 300) of the canvas.
RingPoint(i, n, radius) ==
  LET k == ((12 * i) \div n) % 12 IN
  [x |-> 4000 + (radius * CosTab[k + 1]) \div 100,
   y |-> 3000 + (radius * SinTab[k + 1]) \div 100]

\* The ring layout of the nodes of g: the node at index i (from 0) of n takes
\* slot i of n, at radius 150 + jitter.  jit[i] stands for Math.random() * 100.
\* positions.set: of two nodes with one id the later one keeps the entry.
Jitters == {0, 99}

\* One draw only, where the layout is not what is looked at.
NoJitter == {0}

Layout_nextSlot(g, jit) ==
  [id \in NodeIds(g) |->
     LET i == CHOOSE k \in 1..Len(g.nodes) :
                /\ Get(g.nodes[k], "id") = id
                /\ \A m \in k+1..Len(g.nodes) : Get(g.nodes[m], "id") # id
     IN RingPoint(i, Len(g.nodes), 150 + jit[i])]

Layout(g, jit) ==
  [id \in NodeIds(g) |->
     LET i == CHOOSE k \in 1..Len(g.nodes) :
                /\ Get(g.nodes[k], "id") = id
                /\ \A m \in k+1..Len(g.nodes) : Get(g.nodes[m], "id") # id
     IN RingPoint(i - 1, Len(g.nodes), 150 + jit[i])]

\* The 2D context of the canvas: the attributes the draw effect writes.  A new
\* canvas element starts with the defaults.
NewCtx ==
  [fillStyle |-> "#000000", strokeStyle |-> "#000000", lineWidth |-> 1,
   font |-> "10px sans-serif", textAlign |-> "start"]

NoPoint == [x |-> -1, y |-> -1]

\* One drawing call as the context executes it: with the attributes in force.
FillRect(ctx) ==
  [op |-> "fillRect", node |-> NoNode, a |-> NoPoint, b |-> NoPoint, r |-> 0,
   text |-> << >>, style |-> ctx.fillStyle, width |-> 0, font |-> "", align |-> ""]

Line(ctx, from, to) ==
  [op |-> "line", node |-> NoNode, a |-> from, b |-> to, r |-> 0,
   text |-> << >>, style |-> ctx.strokeStyle, width |-> ctx.lineWidth, font |-> "", align |-> ""]

FillArc(ctx, id, at, r) ==
  [op |-> "fill", node |-> id, a |-> at, b |-> NoPoint, r |-> r,
   text |-> << >>, style |-> ctx.fillStyle, width |-> 0, font |-> "", align |-> ""]

StrokeArc(ctx, id, at, r) ==
  [op |-> "stroke", node |-> id, a |-> at, b |-> NoPoint, r |-> r,
   text |-> << >>, style |-> ctx.strokeStyle, width |-> ctx.lineWidth, font |-> "", align |-> ""]

FillText(ctx, id, text, at) ==
  [op |-> "fillText", node |-> id, a |-> at, b |-> NoPoint, r |-> 0,
   text |-> text, style |-> ctx.fillStyle, width |-> 0, font |-> ctx.font,
   align |-> ctx.textAlign]

\* colors[node.type] || '#64748b'
Color(type) ==
  CASE type = "Thought" -> "#6366f1"
    [] type = "Person"  -> "#3b82f6"
    [] type = "Project" -> "#a855f7"
    [] type = "Topic"   -> "#22c55e"
    [] type = "Entity"  -> "#f59e0b"
    [] OTHER            -> "#64748b"

NodeRadius(type) == IF type = "Thought" THEN 8 ELSE 12

\* label.slice(0, 15)
Slice15(label) == SubSeq(label, 1, IF Len(label) < 15 THEN Len(label) ELSE 15)

\* The stroke attributes set before the edges are drawn.
EdgeStyle_inherit(ctx) == ctx

EdgeStyle(ctx) == [ctx EXCEPT !.strokeStyle = "#334155", !.lineWidth = 1]

\* graphData.edges.forEach: a segment for an edge whose two ends have a position.
RECURSIVE DrawEdges(_, _, _, _)
DrawEdges(g, pos, k, st) ==
  IF k > Len(g.edges) THEN st
  ELSE LET e == g.edges[k] IN
       DrawEdges(g, pos, k + 1,
         IF Get(e, "source") \in DOMAIN pos /\ Get(e, "target") \in DOMAIN pos
           THEN [st EXCEPT !.cmds = Append(@, Line(st.ctx, pos[Get(e, "source")],
                                                    pos[Get(e, "target")]))]
           ELSE st)

\* graphData.nodes.forEach: disc, outline of the selected node, label.
\* node.label.slice throws a TypeError when the node has no label.
DrawNode(node, at, sel, st) ==
  LET id == Get(node, "id")
      r == NodeRadius(Get(node, "type"))
      c1 == [st.ctx EXCEPT !.fillStyle = Color(Get(node, "type"))]
      m1 == Append(st.cmds, FillArc(c1, id, at, r * 10))
      c2 == IF id = sel THEN [c1 EXCEPT !.strokeStyle = "#ffffff", !.lineWidth = 2] ELSE c1
      m2 == IF id = sel THEN Append(m1, StrokeArc(c2, id, at, r * 10)) ELSE m1
      c3 == [c2 EXCEPT !.fillStyle = "#e2e8f0", !.font = "10px Inter, sans-serif",
                       !.textAlign = "center"]
  IN IF "label" \notin DOMAIN node
       THEN [ctx |-> c3, cmds |-> m2, thrown |-> TRUE]
       ELSE [ctx |-> c3,
             cmds |-> Append(m2, FillText(c3, id, Slice15(node.label),
                                          [x |-> at.x, y |-> at.y + (r + 12) * 10])),
             thrown |-> FALSE]

RECURSIVE DrawNodes(_, _, _, _, _)
DrawNodes(g, pos, sel, k, st) ==
  IF k > Len(g.nodes) \/ st.thrown THEN st
  ELSE LET node == g.nodes[k] IN
       DrawNodes(g, pos, sel, k + 1,
         IF Get(node, "id") \in DOMAIN pos
           THEN DrawNode(node, pos[Get(node, "id")], sel, st) ELSE st)

\* One pass of the draw effect over a context left in state ctx: the calls it
\* makes, and the state it leaves the context in.
Draw(g, pos, sel, ctx) ==
  LET c0 == [ctx EXCEPT !.fillStyle = "#0f172a"]
      st0 == [ctx |-> EdgeStyle(c0), cmds |-> << FillRect(c0) >>, thrown |-> FALSE]
  IN DrawNodes(g, pos, sel, 1, DrawEdges(g, pos, 1, st0))

NoCanvas ==
  [present |-> FALSE, drawn |-> FALSE, snap |-> NoData, pos |-> EmptyMap, sel |-> NoNode,
   before |-> NewCtx, ctx |-> NewCtx, thrown |-> FALSE]

\* The canvas after a draw pass with the values of one render: what the pass
\* drew from, the context it found and the context it leaves.
Painted(canvas, gd, pos, sel) ==
  LET d == Draw(getGraph(gd), pos, sel, canvas.ctx) IN
  [present |-> TRUE, drawn |-> TRUE, snap |-> gd, pos |-> pos, sel |-> sel,
   before |-> canvas.ctx, ctx |-> d.ctx, thrown |-> d.thrown]

\* The calls of the last draw pass on the canvas.
Calls(canvas) ==
  IF canvas.drawn
    THEN Draw(getGraph(canvas.snap), canvas.pos, canvas.sel, canvas.before).cmds
    ELSE << >>

NoUpdate == [set |-> FALSE, pos |-> EmptyMap]

\* The component when it is not mounted: its state and its canvas do not exist.
\* shownSel is the selectedNode of the last render.  crashed: an effect threw
\* and, there being no error boundary, React has unmounted the tree.
DeadView ==
  [mounted |-> FALSE, graphData |-> NoData, isLoading |-> FALSE,
   nodePositions |-> EmptyMap, selectedNode |-> NoNode, shownSel |-> NoNode,
   queued |-> NoUpdate, canvas |-> NoCanvas, crashed |-> FALSE]

\* The error indicator of the rendered view: the component reads data and
\* isLoading of the query only and renders no error branch.
ErrorIndicator(v) == FALSE

\* Whether a query change reaches the component: only through its subscription.
Notified_always(v) == TRUE

Notified(v) == v.mounted

\* One render and commit of the component against the graph query s, with its
\* effects.  The layout effect (deps [graphData]) returns early without nodes and
\* otherwise queues setNodePositions; the draw effect (deps [graphData,
\* nodePositions, selectedNode]) paints with the values of this render.  The
\* canvas is in the document only outside the loading branch.  An effect that
\* throws takes the whole tree down.
Commit(v, s, first, jit) ==
  LET gd == s.data
      loading == isLoading(s)
      pos == IF v.queued.set THEN v.queued.pos ELSE v.nodePositions
      graphChanged == first \/ gd # v.graphData
      layoutRuns == graphChanged /\ gd # NoData /\ Len(getGraph(gd).nodes) > 0
      drawRuns == /\ graphChanged \/ v.queued.set \/ v.selectedNode # v.shownSel
                  /\ ~loading
                  /\ gd # NoData
      canvas == IF loading THEN NoCanvas
                ELSE IF drawRuns THEN Painted(v.canvas, gd, pos, v.selectedNode)
                ELSE [v.canvas EXCEPT !.present = TRUE]
  IN IF canvas.thrown THEN [DeadView EXCEPT !.crashed = TRUE]
     ELSE [v EXCEPT
        !.graphData = gd,
        !.isLoading = loading,
        !.nodePositions = pos,
        !.shownSel = v.selectedNode,
        !.queued = IF layoutRuns
                     THEN [set |-> TRUE,
                           pos |-> Layout(getGraph(gd), [i \in 1..Len(getGraph(gd).nodes) |-> jit[i]])]
                     ELSE NoUpdate,
        !.canvas = canvas]

\* The view after the cache changed to graph query s.
Observe_resetSelection(v, s, jit) ==
  IF Notified(v) THEN Commit([v EXCEPT !.selectedNode = NoNode], s, FALSE, jit) ELSE v

Observe(v, s, jit) == IF Notified(v) THEN Commit(v, s, FALSE, jit) ELSE v

\* The draws of Math.random() one layout of snapshot ver takes, each from J.
JitterChoices(ver, J) ==
  IF ver = NoData THEN {<< >>} ELSE [1..Len(getGraph(ver).nodes) -> J]

\* Whether position p is less than 15 pixels from the pointer.
Within(p, pt) ==
  (pt.x - p.x) * (pt.x - p.x) + (pt.y - p.y) * (pt.y - p.y) < 150 * 150

\* setSelectedNode(node.id === selectedNode ? null : node.id)
Toggle_select(id, sel) == id

Toggle(id, sel) == IF id = sel THEN NoNode ELSE id

\* After the loop, when no node was hit: setSelectedNode(null).
NoHit_keep(sel) == sel

NoHit(sel) == NoNode

\* The loop of handleClick over graphData.nodes from index k: the first node
\* with a position within reach decides, a node without a position is passed
\* over, and without a hit the selection is cleared.
RECURSIVE HitLoop_last(_, _, _, _, _)
HitLoop_last(nodes, pos, pt, sel, k) ==
  IF k > Len(nodes) THEN NoHit(sel)
  ELSE IF Get(nodes[k], "id") \in DOMAIN pos /\ Within(pos[Get(nodes[k], "id")], pt)
            /\ \A m \in k+1..Len(nodes) :
                 ~(Get(nodes[m], "id") \in DOMAIN pos /\ Within(pos[Get(nodes[m], "id")], pt))
    THEN Toggle(Get(nodes[k], "id"), sel)
  ELSE HitLoop_last(nodes, pos, pt, sel, k + 1)

RECURSIVE HitLoop(_, _, _, _, _)
HitLoop(nodes, pos, pt, sel, k) ==
  IF k > Len(nodes) THEN NoHit(sel)
  ELSE IF Get(nodes[k], "id") \notin DOMAIN pos THEN HitLoop(nodes, pos, pt, sel, k + 1)
  ELSE IF Within(pos[Get(nodes[k], "id")], pt) THEN Toggle(Get(nodes[k], "id"), sel)
  ELSE HitLoop(nodes, pos, pt, sel, k + 1)

\* handleClick with the closure of the last render: the selection it sets.
handleClick(v, pt) ==
  IF v.graphData = NoData THEN v.selectedNode
  ELSE HitLoop(getGraph(v.graphData).nodes, v.nodePositions, pt, v.shownSel, 1)

\* selectedNodeData of the last render, shown by the details panel:
\* graphData?.nodes.find(n => n.id === selectedNode).
NoDetails == [label |-> << >>, type |-> "", data |-> ""]

selectedNodeData(v) ==
  IF v.graphData = NoData \/ v.shownSel \notin NodeIds(getGraph(v.graphData))
    THEN NoDetails
    ELSE LET nodes == getGraph(v.graphData).nodes
             k == CHOOSE i \in 1..Len(nodes) :
                    /\ Get(nodes[i], "id") = v.shownSel
                    /\ \A m \in 1..i-1 : Get(nodes[m], "id") # v.shownSel
         IN [label |-> Get(nodes[k], "label"), type |-> Get(nodes[k], "type"),
             data |-> Get(nodes[k], "data")]

\* The nodes that carry an outline on the canvas.
Outlined(canvas) ==
  LET cmds == Calls(canvas) IN
  {cmds[i].node : i \in {j \in 1..Len(cmds) : cmds[j].op = "stroke"}}

\* ------------------------------------------------------- bookkeeping
Cache == [q |-> q, net |-> net, nextFid |-> nextFid]

OnWire(n, key) == {r \in n : r.key = key}

\* What the last event found and did to the query of key: the age of its data
\* (-1 without data), whether it was invalidated or fetching, and whether the
\* event started a new fetch or put a request on the wire.  sel is the selection
\* the event found; a click also records its pointer and, when the event before
\* it was a click too, that click's pointer and the selection it found.
Quiet(name) ==
  [name |-> name, key |-> "graph", age |-> -1, inval |-> FALSE, busy |-> FALSE,
   started |-> FALSE, sent |-> FALSE,
   sel |-> view.selectedNode, pt |-> NoPoint, prevSel |-> NoNode, prevPt |-> NoPoint]

EvOf(name, key, c) ==
  LET s == q[key] IN
  [name |-> name, key |-> key,
   age |-> IF s.data = NoData THEN -1 ELSE Now - s.dataUpdatedAt,
   inval |-> s.isInvalidated,
   busy |-> s.fetching,
   started |-> c.q[key].fid # s.fid,
   sent |-> OnWire(c.net, key) \ OnWire(net, key) # {},
   sel |-> view.selectedNode, pt |-> NoPoint, prevSel |-> NoNode, prevPt |-> NoPoint]

\* Install cache state c, keeping within the bound on fetches per query.
Install(c) ==
  /\ \A key \in Keys : c.nextFid[key] <= MaxFetches + 1
  /\ q' = c.q
  /\ net' = c.net
  /\ nextFid' = c.nextFid

\* A refetch is owed to the graph view from a successful think until a graph
\* fetch is started.
Owed(c) == owed /\ c.q["graph"].fid = q["graph"].fid

\* ------------------------------------------------------- events
Tick ==
  /\ tick < MaxTick
  /\ tick' = tick + 1
  /\ ev' = Quiet("tick")
  /\ UNCHANGED <<q, net, nextFid, srv, agent, thinkNet, nextThink, view, owed, notes, dash>>

\* GraphVisualizer mounts: useGraph() subscribes, first render and effects.
MountGraphView(J) ==
  /\ ~view.mounted
  /\ ~view.crashed
  /\ LET c == Subscribe(Cache, "graph", srv, Now) IN
     /\ Install(c)
     /\ \E jit \in JitterChoices(c.q["graph"].data, J) :
          view' = Commit([DeadView EXCEPT !.mounted = TRUE], c.q["graph"], TRUE, jit)
     /\ ev' = EvOf("mount", "graph", c)
     /\ owed' = Owed(c)
  /\ UNCHANGED <<tick, srv, agent, thinkNet, nextThink, notes, dash>>

UnmountGraphView ==
  /\ view.mounted
  /\ LET c == Unsubscribe(Cache, "graph") IN
     /\ Install(c)
     /\ ev' = Quiet("unmount")
  /\ view' = DeadView
  /\ UNCHANGED <<tick, srv, agent, thinkNet, nextThink, owed, notes, dash>>

\* A component that calls useBrainStats() mounts / unmounts.
MountStats ==
  /\ q["brainStats"].observers = 0
  /\ LET c == Subscribe(Cache, "brainStats", srv, Now) IN
     /\ Install(c)
     /\ ev' = EvOf("mount", "brainStats", c)
  /\ UNCHANGED <<tick, srv, agent, thinkNet, nextThink, view, owed, notes, dash>>

UnmountStats ==
  /\ q["brainStats"].observers > 0
  /\ LET c == Unsubscribe(Cache, "brainStats") IN
     /\ Install(c)
     /\ ev' = Quiet("unmount")
  /\ UNCHANGED <<tick, srv, agent, thinkNet, nextThink, view, owed, notes, dash>>

\* The re-render that setNodePositions scheduled.
Rerender ==
  /\ view.mounted
  /\ view.queued.set
  /\ view' = Commit(view, q["graph"], FALSE, << >>)
  /\ ev' = EvOf("rerender", "graph", Cache)
  /\ UNCHANGED <<tick, q, net, nextFid, srv, agent, thinkNet, nextThink, owed, notes, dash>>

\* A click on the canvas at pointer pt (offset in the canvas, tenths of a
\* pixel): handleClick, then the render that a changed selection causes.
Pointers ==
  {[x |-> 5600, y |-> 3000], [x |-> 2500, y |-> 3140], [x |-> 5500, y |-> 3150],
   [x |-> 0, y |-> 0]}

Click(pt) ==
  /\ view.mounted
  /\ view.canvas.present
  /\ LET sel == handleClick(view, pt) IN
       view' = IF sel = view.selectedNode THEN view
               ELSE Commit([view EXCEPT !.selectedNode = sel], q["graph"], FALSE, << >>)
  /\ ev' = [Quiet("click") EXCEPT
              !.pt = pt,
              !.prevSel = IF ev.name = "click" THEN ev.sel ELSE NoNode,
              !.prevPt = IF ev.name = "click" THEN ev.pt ELSE NoPoint]
  /\ UNCHANGED <<tick, q, net, nextFid, srv, agent, thinkNet, nextThink, owed, notes, dash>>

\* The window regains focus: every observed query is asked whether to refetch.
FocusQuery(c, key) ==
  IF c.q[key].observers > 0 /\ shouldFetchOnWindowFocus(c.q[key], key, Now)
    THEN FetchQuery(c, key, FALSE, srv, Now)
    ELSE c

WindowFocus ==
  /\ \E key \in Keys : q[key].observers > 0
  /\ LET c == FocusQuery(FocusQuery(Cache, "brainStats"), "graph") IN
     /\ Install(c)
     /\ view' = Observe(view, c.q["graph"], << >>)
     /\ ev' = EvOf("focus", "graph", c)
     /\ owed' = Owed(c)
  /\ UNCHANGED <<tick, srv, agent, thinkNet, nextThink, notes, dash>>

\* The response to request req arrives: ok, or a network / HTTP error.
Respond(req, ok, J) ==
  /\ req \in net
  /\ LET c == Settle(Cache, req, ok, Now) IN
     /\ Install(c)
     /\ \E jit \in JitterChoices(c.q["graph"].data, J) :
          view' = Observe(view, c.q["graph"], jit)
     /\ ev' = [EvOf(IF ok THEN "success" ELSE "failure", req.key, c)
                 EXCEPT !.busy = Live(Cache, req)]
  /\ UNCHANGED <<tick, srv, agent, thinkNet, nextThink, owed, notes, dash>>

\* The retry delay of a failed attempt is over.
RetryFire(key) ==
  /\ q[key].fetching
  /\ q[key].waiting
  /\ LET c == Retry(Cache, key, srv) IN
     /\ Install(c)
     /\ view' = Observe(view, c.q["graph"], << >>)
     /\ ev' = EvOf("retry", key, c)
  /\ UNCHANGED <<tick, srv, agent, thinkNet, nextThink, owed, notes, dash>>


\* ------------------------------------------------------- useAgent
NoAgent == [isThinking |-> FALSE, lastResponse |-> 0, error |-> FALSE]

\* think(thought): setIsThinking(true), setError(null), POST /api/think.
ThinkCall ==
  /\ nextThink <= MaxThinks
  /\ agent' = [agent EXCEPT !.isThinking = TRUE, !.error = FALSE]
  /\ thinkNet' = thinkNet \cup {nextThink}
  /\ nextThink' = nextThink + 1
  /\ ev' = Quiet("think")
  /\ UNCHANGED <<tick, q, net, nextFid, srv, view, owed, notes, dash>>

\* The try block after the await, then finally: setLastResponse, invalidate
\* brainStats, invalidate graph, setIsThinking(false).
think_invalidateFirst(a, c, id, ver, t) ==
  LET c1 == invalidateQueries(c, "brainStats", a.lastResponse, ver, t)
      c2 == invalidateQueries(c1, "graph", a.lastResponse, ver, t)
      a1 == [a EXCEPT !.lastResponse = id]
  IN [agent |-> [a1 EXCEPT !.isThinking = FALSE], cache |-> c2]

think_graphOnly(a, c, id, ver, t) ==
  LET a1 == [a EXCEPT !.lastResponse = id]
      c2 == invalidateQueries(c, "graph", a1.lastResponse, ver, t)
  IN [agent |-> [a1 EXCEPT !.isThinking = FALSE], cache |-> c2]

think(a, c, id, ver, t) ==
  LET a1 == [a EXCEPT !.lastResponse = id]
      c1 == invalidateQueries(c, "brainStats", a1.lastResponse, ver, t)
      c2 == invalidateQueries(c1, "graph", a1.lastResponse, ver, t)
  IN [agent |-> [a1 EXCEPT !.isThinking = FALSE], cache |-> c2]

\* POST /api/think answers: the thought is stored (the graph changes) and the
\* handler resumes.
ThinkSuccess(id, J) ==
  /\ id \in thinkNet
  /\ thinkNet' = thinkNet \ {id}
  /\ srv' = srv + 1
  /\ LET r == think(agent, Cache, id, srv + 1, Now) IN
     /\ agent' = r.agent
     /\ Install(r.cache)
     /\ \E jit \in JitterChoices(r.cache.q["graph"].data, J) :
          view' = Observe(view, r.cache.q["graph"], jit)
     /\ ev' = EvOf("thinkSuccess", "graph", r.cache)
     /\ owed' = (r.cache.q["graph"].fid = q["graph"].fid)
  /\ UNCHANGED <<tick, nextThink, notes, dash>>

\* POST /api/think fails: catch sets the error, finally clears isThinking.
ThinkFail(id) ==
  /\ id \in thinkNet
  /\ thinkNet' = thinkNet \ {id}
  /\ agent' = [agent EXCEPT !.error = TRUE, !.isThinking = FALSE]
  /\ ev' = Quiet("thinkFailure")
  /\ UNCHANGED <<tick, q, net, nextFid, srv, nextThink, view, owed, notes, dash>>

\* ------------------------------------------------------- App, NoteInput, MemoryStream
\* What the user may have typed into a form: nothing, blanks only, a text.
Texts == {"", " ", "remember"}

\* String.prototype.trim on these texts.
Trim(text) == IF text = " " THEN "" ELSE text

\* A ghost record of the step that led to the current state of the notes page.
NotesQuiet(name) ==
  [name |-> name, trigger |-> notes.refreshTrigger, nextLoad |-> notes.nextLoad,
   saved |-> notes.saved, content |-> notes.content]

\* App after its first commit: view 'dashboard', refreshTrigger 0, an empty
\* form, and MemoryStream's effect has called loadNotes once (load 1 is on the
\* wire, loading is true). inst numbers the instances of NoteInput and
\* MemoryStream, which mount and unmount together with the dashboard view.
NewApp ==
  [view |-> "dashboard", inst |-> 1, refreshTrigger |-> 0,
   content |-> "", sending |-> FALSE,
   notes |-> 0, loading |-> TRUE,
   saved |-> 0, posts |-> {}, nextPost |-> 1,
   loads |-> {[id |-> 1, inst |-> 1, data |-> 0]}, nextLoad |-> 2,
   latest |-> [data |-> 0, done |-> "pending"],
   last |-> [name |-> "init", trigger |-> 0, nextLoad |-> 1, saved |-> 0, content |-> ""]]

\* loadNotes: setLoading(true), GET /api/memory/stream; the response will
\* carry the notes the server holds when the request is made.
loadNotes(n) ==
  [n EXCEPT !.loading = TRUE,
            !.loads = @ \cup {[id |-> n.nextLoad, inst |-> n.inst, data |-> n.saved]},
            !.nextLoad = @ + 1,
            !.latest = [data |-> n.saved, done |-> "pending"]]

\* App.handleNoteAdded: setRefreshTrigger(prev => prev + 1).
handleNoteAdded_none(n) == n

handleNoteAdded(n) == [n EXCEPT !.refreshTrigger = @ + 1]

\* The commit after a state change of App: MemoryStream's effect runs
\* loadNotes when it is mounted and refreshTrigger differs from the value of
\* its last run.
StreamEffect(n, before) ==
  IF n.view = "dashboard" /\ n.refreshTrigger # before THEN loadNotes(n) ELSE n

\* The user edits the textarea of NoteInput (it is not disabled while sending).
NoteType(text) ==
  /\ notes.view = "dashboard"
  /\ text # notes.content
  /\ notes' = [notes EXCEPT !.content = text, !.last = NotesQuiet("type")]
  /\ UNCHANGED <<tick, q, net, nextFid, srv, agent, thinkNet, nextThink, view, ev, owed, dash>>

\* NoteInput.handleSubmit up to the await (button or Cmd+Enter).
NoteSubmit ==
  /\ notes.view = "dashboard"
  /\ notes.nextPost <= MaxNotes
  /\ notes' =
       IF Trim(notes.content) = "" \/ notes.sending
         THEN [notes EXCEPT !.last = NotesQuiet("submitIgnored")]
         ELSE [notes EXCEPT
                 !.sending = TRUE,
                 !.posts = @ \cup {[id |-> notes.nextPost, inst |-> notes.inst,
                                    text |-> Trim(notes.content)]},
                 !.nextPost = @ + 1,
                 !.last = NotesQuiet("submit")]
  /\ UNCHANGED <<tick, q, net, nextFid, srv, agent, thinkNet, nextThink, view, ev, owed, dash>>

\* The state setters of a NoteInput instance act only while it is mounted.
FormAlive(n, p) == n.view = "dashboard" /\ n.inst = p.inst

\* api.addNote resolves (the note is stored): setContent(''), onNoteAdded(),
\* finally setSending(false), and the commit that follows.
NoteSaved(p) ==
  /\ p \in notes.posts
  /\ LET n0 == [notes EXCEPT !.posts = @ \ {p}, !.saved = @ + 1]
         n1 == IF FormAlive(notes, p) THEN [n0 EXCEPT !.content = "", !.sending = FALSE]
               ELSE n0
         n2 == handleNoteAdded(n1)
         n3 == StreamEffect(n2, notes.refreshTrigger)
     IN notes' = [n3 EXCEPT !.last = NotesQuiet("noteSaved")]
  /\ UNCHANGED <<tick, q, net, nextFid, srv, agent, thinkNet, nextThink, view, ev, owed, dash>>

\* api.addNote rejects (network error, or a body that is not JSON): the
\* try block is left, finally setSending(false).
NoteFailed(p) ==
  /\ p \in notes.posts
  /\ LET n0 == [notes EXCEPT !.posts = @ \ {p}]
         n1 == IF FormAlive(notes, p) THEN [n0 EXCEPT !.sending = FALSE] ELSE n0
         n3 == StreamEffect(n1, notes.refreshTrigger)
     IN notes' = [n3 EXCEPT !.last = NotesQuiet("noteFailed")]
  /\ UNCHANGED <<tick, q, net, nextFid, srv, agent, thinkNet, nextThink, view, ev, owed, dash>>

\* The setters of a MemoryStream instance act only while it is mounted.
StreamAlive(n, l) == n.view = "dashboard" /\ n.inst = l.inst

\* api.getStream resolves: setNotes(data), setLoading(false).
StreamLoaded(n, l) ==
  IF StreamAlive(n, l) THEN [n EXCEPT !.notes = l.data, !.loading = FALSE] ELSE n

\* api.getStream rejects: loadNotes ends at the await with the rejection, the
\* two setters after it are not reached.
StreamFailed(n, l) == n

StreamRespond(l, ok) ==
  /\ l \in notes.loads
  /\ LET n0 == [notes EXCEPT !.loads = @ \ {l}]
         n1 == IF ok THEN StreamLoaded(n0, l) ELSE StreamFailed(n0, l)
         n2 == IF l.id = notes.nextLoad - 1
                 THEN [n1 EXCEPT !.latest.done = IF ok THEN "ok" ELSE "failed"]
                 ELSE n1
     IN notes' = [n2 EXCEPT !.last = NotesQuiet(IF ok THEN "streamLoaded" ELSE "streamFailed")]
  /\ UNCHANGED <<tick, q, net, nextFid, srv, agent, thinkNet, nextThink, view, ev, owed, dash>>

\* App.setView('architecture'): NoteInput and MemoryStream unmount; their
\* state is gone, their requests stay on the wire.
ShowArchitecture ==
  /\ notes.view = "dashboard"
  /\ notes' = [notes EXCEPT !.view = "architecture", !.content = "", !.sending = FALSE,
                            !.notes = 0, !.loading = TRUE,
                            !.latest = [data |-> 0, done |-> "none"],
                            !.last = NotesQuiet("showArchitecture")]
  /\ UNCHANGED <<tick, q, net, nextFid, srv, agent, thinkNet, nextThink, view, ev, owed, dash>>

\* App.setView('dashboard'): new instances mount, MemoryStream's effect runs
\* loadNotes.
ShowDashboard ==
  /\ notes.view = "architecture"
  /\ notes.inst < MaxMounts
  /\ notes' = [loadNotes([notes EXCEPT !.view = "dashboard", !.inst = @ + 1])
                 EXCEPT !.last = NotesQuiet("showDashboard")]
  /\ UNCHANGED <<tick, q, net, nextFid, srv, agent, thinkNet, nextThink, view, ev, owed, dash>>

\* ------------------------------------------------------- Dashboard
\* The Dashboard component before it is mounted (and after it is unmounted:
\* its state is gone; thinks, timers and fetches it started live on).
\* inst numbers its instances; dashboardData is the version of the data shown.
NoDashboard ==
  [mounted |-> FALSE, inst |-> 0, input |-> "", dashboardData |-> NoData,
   thinks |-> {}, timers |-> {}, fetches |-> {}, nextFetch |-> 1,
   last |-> [name |-> "init", mounted |-> FALSE, input |-> "", data |-> NoData,
             nextFetch |-> 1, timers |-> {}, thinks |-> {}, agent |-> NoAgent]]

\* A ghost record of the step that led to the current state of the Dashboard.
DashQuiet(name) ==
  [name |-> name, mounted |-> dash.mounted, input |-> dash.input,
   data |-> dash.dashboardData, nextFetch |-> dash.nextFetch,
   timers |-> dash.timers, thinks |-> dash.thinks, agent |-> agent]

\* fetchDashboardData up to the await, called by instance inst: GET
\* /api/dashboard/command-center; the answer will carry the server's data of
\* that moment.
fetchDashboardData(d, inst) ==
  [d EXCEPT !.fetches = @ \cup {[id |-> d.nextFetch, inst |-> inst, ver |-> srv]},
            !.nextFetch = @ + 1]

\* The setters of a Dashboard instance act only while it is mounted.
DashAlive(d, inst) == d.mounted /\ d.inst = inst

\* Mount: initial state, the effect calls fetchDashboardData and starts the
\* 30 s interval (running exactly while the instance is mounted).
DashMount ==
  /\ ~dash.mounted
  /\ dash.inst < MaxMounts
  /\ dash.nextFetch <= MaxRefresh
  /\ dash' = [fetchDashboardData([dash EXCEPT !.mounted = TRUE, !.inst = @ + 1],
                                 dash.inst + 1)
                EXCEPT !.last = DashQuiet("mount")]
  /\ agent' = NoAgent
  /\ UNCHANGED <<tick, q, net, nextFid, srv, thinkNet, nextThink, view, ev, owed, notes>>

\* Unmount: the effect's cleanup clears the interval, nothing else.
DashUnmount ==
  /\ dash.mounted
  /\ dash' = [dash EXCEPT !.mounted = FALSE, !.input = "", !.dashboardData = NoData,
                          !.last = DashQuiet("unmount")]
  /\ agent' = NoAgent
  /\ UNCHANGED <<tick, q, net, nextFid, srv, thinkNet, nextThink, view, ev, owed, notes>>

\* The interval fires.
DashInterval ==
  /\ dash.mounted
  /\ dash.nextFetch <= MaxRefresh
  /\ dash' = [fetchDashboardData(dash, dash.inst) EXCEPT !.last = DashQuiet("interval")]
  /\ UNCHANGED <<tick, q, net, nextFid, srv, agent, thinkNet, nextThink, view, ev, owed, notes>>

\* The user edits the textarea (disabled while thinking).
DashType(text) ==
  /\ dash.mounted
  /\ ~agent.isThinking
  /\ text # dash.input
  /\ dash' = [dash EXCEPT !.input = text, !.last = DashQuiet("type")]
  /\ UNCHANGED <<tick, q, net, nextFid, srv, agent, thinkNet, nextThink, view, ev, owed, notes>>

\* The guard of handleSubmit.
canSubmit_blankOnly(input, isThinking) == Trim(input) # ""

canSubmit(input, isThinking) == Trim(input) # "" /\ ~isThinking

\* handleSubmit up to the await: think(input) sets isThinking, clears the
\* error and posts the thought.
DashSubmit ==
  /\ dash.mounted
  /\ IF canSubmit(dash.input, agent.isThinking)
       THEN /\ nextThink <= MaxSubmits
            /\ agent' = [agent EXCEPT !.isThinking = TRUE, !.error = FALSE]
            /\ nextThink' = nextThink + 1
            /\ dash' = [dash EXCEPT !.thinks = @ \cup {[id |-> nextThink, inst |-> dash.inst]},
                                    !.last = DashQuiet("submit")]
       ELSE /\ dash' = [dash EXCEPT !.last = DashQuiet("submitIgnored")]
            /\ UNCHANGED <<agent, nextThink>>
  /\ UNCHANGED <<tick, q, net, nextFid, srv, thinkNet, view, ev, owed, notes>>

\* handleSubmit after think(input) returned: setInput(''), then
\* setTimeout(fetchDashboardData, 2000).
afterThink(d, t) ==
  [d EXCEPT !.input = IF DashAlive(d, t.inst) THEN "" ELSE @,
            !.timers = @ \cup {[id |-> t.id, inst |-> t.inst, ver |-> srv + 1]}]

\* POST /api/think answers for think t: the thought is stored, think() ends
\* (setLastResponse, the two invalidations, setIsThinking(false)) and
\* handleSubmit resumes.
DashThinkOk(t) ==
  /\ t \in dash.thinks
  /\ srv' = srv + 1
  /\ LET r == think(agent, Cache, t.id, srv + 1, Now) IN
     /\ agent' = IF DashAlive(dash, t.inst) THEN r.agent ELSE agent
     /\ Install(r.cache)
  /\ dash' = [afterThink([dash EXCEPT !.thinks = @ \ {t}], t)
                EXCEPT !.last = DashQuiet("thinkOk")]
  /\ UNCHANGED <<tick, thinkNet, nextThink, view, ev, owed, notes>>

\* handleSubmit when think(input) threw: the await rethrows and the rest of
\* the handler is skipped.
thinkThrew_schedule(d, t) ==
  [d EXCEPT !.timers = @ \cup {[id |-> t.id, inst |-> t.inst, ver |-> srv]}]

thinkThrew(d, t) == d

\* POST /api/think fails for think t: catch sets the error, finally clears
\* isThinking, the error is thrown on to handleSubmit.
DashThinkFail(t) ==
  /\ t \in dash.thinks
  /\ agent' = IF DashAlive(dash, t.inst)
                THEN [agent EXCEPT !.error = TRUE, !.isThinking = FALSE]
                ELSE agent
  /\ dash' = [thinkThrew([dash EXCEPT !.thinks = @ \ {t}], t)
                EXCEPT !.last = DashQuiet("thinkFail")]
  /\ UNCHANGED <<tick, q, net, nextFid, srv, thinkNet, nextThink, view, ev, owed, notes>>

\* A 2 s timeout set by handleSubmit fires: fetchDashboardData, mounted or not.
DashTimer(tm) ==
  /\ tm \in dash.timers
  /\ dash.nextFetch <= MaxRefresh
  /\ dash' = [fetchDashboardData([dash EXCEPT !.timers = @ \ {tm}], tm.inst)
                EXCEPT !.last = DashQuiet("timer")]
  /\ UNCHANGED <<tick, q, net, nextFid, srv, agent, thinkNet, nextThink, view, ev, owed, notes>>

\* fetchDashboardData after the await: setDashboardData(data) when res.ok;
\* a non-OK response is passed over and a network error only logged.
setDashboardData_always(data, f, ok) == IF ok THEN f.ver ELSE NoData

setDashboardData(data, f, ok) == IF ok THEN f.ver ELSE data

DashRespond(f, ok) ==
  /\ f \in dash.fetches
  /\ dash' = [dash EXCEPT
                !.fetches = @ \ {f},
                !.dashboardData = IF DashAlive(dash, f.inst)
                                    THEN setDashboardData(@, f, ok) ELSE @,
                !.last = DashQuiet(IF ok THEN "fetchOk" ELSE "fetchFailed")]
  /\ UNCHANGED <<tick, q, net, nextFid, srv, agent, thinkNet, nextThink, view, ev, owed, notes>>

\* ------------------------------------------------------- specification
Init ==
  /\ tick = 0
  /\ q = [key \in Keys |-> NewQuery]
  /\ net = {}
  /\ nextFid = [key \in Keys |-> 1]
  /\ srv = 0
  /\ agent = NoAgent
  /\ thinkNet = {}
  /\ nextThink = 1
  /\ view = DeadView
  /\ ev = Quiet("init")
  /\ owed = FALSE
  /\ notes = NewApp
  /\ dash = NoDashboard

Next ==
  \/ Tick
  \/ MountGraphView(NoJitter)
  \/ UnmountGraphView
  \/ Rerender
  \/ WindowFocus
  \/ \E req \in net, ok \in BOOLEAN : Respond(req, ok, NoJitter)
  \/ \E key \in Keys : RetryFire(key)
  \/ ThinkCall
  \/ \E id \in thinkNet : ThinkSuccess(id, NoJitter)
  \/ \E id \in thinkNet : ThinkFail(id)

\* The graph view with the agent hook. Every layout draws the same jitter here;
\* the layouts a snapshot can get are explored in SpecView.
Spec == Init /\ [][Next]_vars

NextStats ==
  \/ Tick
  \/ MountStats
  \/ UnmountStats
  \/ WindowFocus
  \/ \E req \in net, ok \in BOOLEAN : Respond(req, ok, Jitters)
  \/ \E key \in Keys : RetryFire(key)
  \/ ThinkCall
  \/ \E id \in thinkNet : ThinkSuccess(id, Jitters)
  \/ \E id \in thinkNet : ThinkFail(id)

\* A statistics consumer with the agent hook.
SpecStats == Init /\ [][NextStats]_vars

NextAgent ==
  \/ Tick
  \/ MountGraphView(Jitters)
  \/ MountStats
  \/ \E req \in net : Respond(req, TRUE, Jitters)
  \/ ThinkCall
  \/ \E id \in thinkNet : ThinkSuccess(id, Jitters)
  \/ \E id \in thinkNet : ThinkFail(id)

\* Both consumers, mounted for good, with the agent hook, on a network that
\* answers every request.
SpecAgent == Init /\ [][NextAgent]_vars

\* The graph view under clicks, on any server graph: the clock stands still and
\* every request is answered.
InitView ==
  /\ tick = 0
  /\ q = [key \in Keys |-> NewQuery]
  /\ net = {}
  /\ nextFid = [key \in Keys |-> 1]
  /\ srv \in 0..Len(Payloads) - 1
  /\ agent = NoAgent
  /\ thinkNet = {}
  /\ nextThink = 1
  /\ view = DeadView
  /\ ev = Quiet("init")
  /\ owed = FALSE
  /\ notes = NewApp
  /\ dash = NoDashboard

NextView ==
  \/ MountGraphView(Jitters)
  \/ UnmountGraphView
  \/ Rerender
  \/ \E pt \in Pointers : Click(pt)
  \/ \E req \in net : Respond(req, TRUE, Jitters)
  \/ ThinkCall
  \/ \E id \in thinkNet : ThinkSuccess(id, Jitters)

SpecView == InitView /\ [][NextView]_vars

\* handleClick as a function of the values of a render: any snapshot, any
\* position map over the ids (no position, or one of HitPoints) and any
\* selection, then clicks.
AllIds == UNION {NodeIds(Payloads[i]) : i \in 1..Len(Payloads)}

HitPoints == {[x |-> 5500, y |-> 3000], [x |-> 5600, y |-> 3000], [x |-> 1000, y |-> 1000]}

PositionMaps == UNION {[ids -> HitPoints] : ids \in SUBSET AllIds}

Loaded(ver) ==
  [NewQuery EXCEPT !.exists = TRUE, !.data = ver, !.status = "success", !.fid = 1,
                   !.attempts = 1, !.observers = 1, !.why = {"noSnapshot"}]

InitHit ==
  /\ tick = 0
  /\ srv \in 0..Len(Payloads) - 1
  /\ q = [key \in Keys |-> IF key = "graph" THEN Loaded(srv) ELSE NewQuery]
  /\ net = {}
  /\ nextFid = [key \in Keys |-> IF key = "graph" THEN 2 ELSE 1]
  /\ agent = NoAgent
  /\ thinkNet = {}
  /\ nextThink = 1
  /\ \E pos \in PositionMaps, sel \in {NoNode} \cup AllIds :
       view = [DeadView EXCEPT
                 !.mounted = TRUE, !.graphData = srv, !.nodePositions = pos,
                 !.selectedNode = sel, !.shownSel = sel,
                 !.canvas = Painted(NoCanvas, srv, pos, sel)]
  /\ ev = Quiet("init")
  /\ owed = FALSE
  /\ notes = NewApp
  /\ dash = NoDashboard

NextHit == \E pt \in Pointers : Click(pt)

SpecHit == InitHit /\ [][NextHit]_vars

\* The graph view on a server that answers with a malformed payload.
InitMalformed ==
  /\ tick = 0
  /\ q = [key \in Keys |-> NewQuery]
  /\ net = {}
  /\ nextFid = [key \in Keys |-> 1]
  /\ srv \in {NoData - i : i \in 1..Len(Malformed)}
  /\ agent = NoAgent
  /\ thinkNet = {}
  /\ nextThink = 1
  /\ view = DeadView
  /\ ev = Quiet("init")
  /\ owed = FALSE
  /\ notes = NewApp
  /\ dash = NoDashboard

NextMalformed ==
  \/ MountGraphView(Jitters)
  \/ UnmountGraphView
  \/ Rerender
  \/ \E pt \in Pointers : Click(pt)
  \/ \E req \in net, ok \in BOOLEAN : Respond(req, ok, Jitters)
  \/ \E key \in Keys : RetryFire(key)

SpecMalformed == InitMalformed /\ [][NextMalformed]_vars

\* The notes page alone: App with NoteInput and MemoryStream.
NextNotes ==
  \/ \E text \in Texts : NoteType(text)
  \/ NoteSubmit
  \/ \E p \in notes.posts : NoteSaved(p)
  \/ \E p \in notes.posts : NoteFailed(p)
  \/ \E l \in notes.loads, ok \in BOOLEAN : StreamRespond(l, ok)
  \/ ShowArchitecture
  \/ ShowDashboard

SpecNotes == Init /\ [][NextNotes]_vars

\* The Dashboard alone.
NextDash ==
  \/ DashMount
  \/ DashUnmount
  \/ DashInterval
  \/ \E text \in Texts : DashType(text)
  \/ DashSubmit
  \/ \E t \in dash.thinks : DashThinkOk(t)
  \/ \E t \in dash.thinks : DashThinkFail(t)
  \/ \E tm \in dash.timers : DashTimer(tm)
  \/ \E f \in dash.fetches, ok \in BOOLEAN : DashRespond(f, ok)

SpecDash == Init /\ [][NextDash]_vars


\* ------------------------------------------------------- properties
Graph == q["graph"]

Stats == q["brainStats"]

GraphMount == ev.name = "mount" /\ ev.key = "graph"

StatsMount == ev.name = "mount" /\ ev.key = "brainStats"

\* C1: after a successful think, the next access to the graph query (a mount of
\* the view) starts a new graph fetch, whatever the age of the snapshot.
C1_RefetchAfterThink == GraphMount => ~owed

\* C2: with no invalidation and no fetch outstanding, an access 59 seconds after
\* the last successful graph fetch issues no fetch and one 61 seconds after it
\* issues one.
C2_FreshFor60 ==
  (GraphMount /\ ~ev.inval /\ ~ev.busy) =>
     /\ ev.age = 59 => ~ev.started /\ ~ev.sent
     /\ ev.age = 61 => ev.started /\ ev.sent

C2_Witness ==
  /\ GraphMount /\ ~ev.inval /\ ~ev.busy /\ ev.age = 59
  /\ ~Graph.fetching

C2_WitnessExpired ==
  /\ GraphMount /\ ~ev.inval /\ ~ev.busy /\ ev.age = 61
  /\ Graph.fetching

\* C3: every graph fetch is started on one of three grounds (no snapshot has been
\* fetched yet, the query was invalidated, the 60 seconds have elapsed), and a
\* window focus or a re-render of the view starts none and sends no request.
C3_FetchOnlyOnGrounds ==
  /\ Graph.fid > 0 => Graph.why # {}
  /\ (ev.name \in {"focus", "rerender"} /\ ev.key = "graph") => ~ev.started /\ ~ev.sent

C3_Witness ==
  /\ ev.name = "focus" /\ ev.key = "graph"
  /\ view.mounted
  /\ ev.age \in 0..59 /\ ~ev.inval /\ ~ev.busy

C5_AtMostOneRetry ==
  /\ Graph.attempts <= 2
  /\ (ev.name = "failure" /\ ev.key = "graph" /\ ev.busy /\ Graph.attempts = 2)
        => Graph.status = "error" /\ ~Graph.fetching

C5_Witness ==
  /\ ev.name = "failure" /\ ev.key = "graph" /\ ev.busy
  /\ Graph.attempts = 2 /\ Graph.status = "error"

\* C6: when a refresh has failed while a snapshot exists, the mounted view still
\* shows that snapshot and shows an error indicator with it.
C6_StaleSnapshotWithIndicator ==
  (view.mounted /\ Graph.status = "error" /\ ~Graph.fetching /\ Graph.data # NoData) =>
     /\ view.graphData = Graph.data
     /\ ErrorIndicator(view)

\* C7 as stated: the statistics cache is fresh for 60 seconds.
C7_StatsFreshFor60 ==
  (StatsMount /\ ~ev.inval /\ ev.age \in 0..59) => ~ev.started /\ ~ev.sent

\* C7 amended: the statistics cache is fresh for 30 seconds and retries once: an
\* access less than 30 seconds after a successful statistics fetch, with no
\* invalidation, issues no fetch; one at 30 seconds or later, with none
\* outstanding, does; a statistics fetch makes at most two requests.
C7_StatsFreshFor30 ==
  /\ (StatsMount /\ ~ev.inval /\ ev.age \in 0..29) => ~ev.started /\ ~ev.sent
  /\ (StatsMount /\ ~ev.busy /\ ev.age >= 30) => ev.started /\ ev.sent
  /\ Stats.attempts <= 2

C7_Witness ==
  /\ StatsMount /\ ~ev.inval /\ ~ev.busy /\ ev.age = 29
  /\ ~Stats.fetching

\* C8: a successful think leaves every cached query, graph and statistics,
\* invalidated, whatever its age and data, and it invalidates them after it has
\* recorded its response as lastResponse.
C8_ThinkInvalidatesBoth ==
  ev.name = "thinkSuccess" =>
     /\ agent.lastResponse > 0
     /\ \A key \in Keys :
          q[key].exists => q[key].isInvalidated /\ q[key].invalBy = agent.lastResponse

C8_Witness ==
  /\ ev.name = "thinkSuccess"
  /\ ev.age \in 0..59 /\ ~ev.inval
  /\ Graph.isInvalidated /\ Stats.isInvalidated
  /\ Stats.data # NoData /\ Now - Stats.dataUpdatedAt < 30

\* C9: while the view is not mounted, nothing of it is updated: a graph response
\* that arrives then changes no positions, no selection and no canvas.
C9_DeadViewUntouched == ~view.mounted => view = DeadView

C9_Witness ==
  /\ ev.name = "success" /\ ev.key = "graph" /\ ev.busy
  /\ ~view.mounted
  /\ Graph.data # NoData /\ Graph.dataUpdatedAt = Now

\* pos is a ring layout of the nodes of g.
IsLayoutOf(pos, g) ==
  /\ DOMAIN pos = NodeIds(g)
  /\ \A i \in 1..Len(g.nodes) :
        \E radius \in 150..249 :
           pos[g.nodes[i].id] = RingPoint(i - 1, Len(g.nodes), radius)

\* C10: what is on the canvas was drawn with a position map computed from the
\* snapshot drawn (or with none yet, before the first layout).
C10_DrawnWithOwnPositions ==
  view.canvas.drawn =>
     \/ DOMAIN view.canvas.pos = {}
     \/ IsLayoutOf(view.canvas.pos, getGraph(view.canvas.snap))

\* ------------------------------------------------------- selection
\* C11: in a mounted GraphVisualizer the selection is none or one node id, it
\* is none when the component has just mounted, and every event other than a
\* click on the canvas (a response that lands, a snapshot replacement, the
\* layout effect, a re-render, a think call) leaves it as it found it.
C11_SelectionOnlyByClick ==
  /\ view.selectedNode \in {NoNode} \cup AllIds
  /\ ev.name \in {"init", "mount"} => view.selectedNode = NoNode
  /\ view.mounted /\ ev.name # "click" => view.selectedNode = ev.sel

\* A new snapshot has landed and the layout effect has run while a node was
\* selected that the new snapshot no longer has.
C11_Witness ==
  /\ view.mounted
  /\ ev.name = "success"
  /\ view.queued.set
  /\ view.selectedNode # NoNode
  /\ view.selectedNode \notin NodeIds(getGraph(view.graphData))

\* ------------------------------------------------------- hit test
\* The square of the distance between two points.
Dist2(a, b) == (a.x - b.x) * (a.x - b.x) + (a.y - b.y) * (a.y - b.y)

\* The indices of the nodes of the rendered snapshot that have a position less
\* than 15 pixels from pt.
InReach(pt) ==
  LET nodes == getGraph(view.graphData).nodes IN
  {k \in 1..Len(nodes) :
      /\ nodes[k].id \in DOMAIN view.nodePositions
      /\ Dist2(view.nodePositions[nodes[k].id], pt) < 22500}

\* The first node in snapshot order within reach of pt.
FirstInReach(pt) ==
  LET k == CHOOSE i \in InReach(pt) : \A j \in InReach(pt) : i <= j
  IN getGraph(view.graphData).nodes[k].id

\* C12: when a click has a positioned node less than 15 pixels from the
\* pointer, the first such node in snapshot order decides the selection (it is
\* selected, or deselected when it was the selection), whatever later nodes are
\* in reach and however close they are, and nodes without a position are
\* passed over.
C12_FirstMatchWins ==
  ev.name = "click" /\ InReach(ev.pt) # {} =>
     view.selectedNode = IF FirstInReach(ev.pt) = ev.sel THEN NoNode ELSE FirstInReach(ev.pt)

\* A click that selected the first node in reach although a later node is
\* closer to the pointer and an earlier node has no position.
C12_Witness ==
  /\ ev.name = "click"
  /\ InReach(ev.pt) # {}
  /\ view.selectedNode = FirstInReach(ev.pt)
  /\ LET nodes == getGraph(view.graphData).nodes
         pos == view.nodePositions
     IN /\ \E k \in InReach(ev.pt) :
              Dist2(pos[nodes[k].id], ev.pt) < Dist2(pos[FirstInReach(ev.pt)], ev.pt)
        /\ \E j \in 1..Len(nodes) :
              /\ nodes[j].id \notin DOMAIN pos
              /\ \A k \in InReach(ev.pt) : j < k

\* C13: two clicks in a row at one pointer that has a positioned node less than
\* 15 pixels away, the first node in reach not being selected before them:
\* the first click selects that node and the second clears the selection.
C13_ToggleTwice ==
  /\ ev.name = "click"
  /\ ev.prevPt = ev.pt
  /\ InReach(ev.pt) # {}
  /\ ev.prevSel # FirstInReach(ev.pt)
  => /\ ev.sel = FirstInReach(ev.pt)
     /\ view.selectedNode = NoNode

\* The second of two such clicks has happened, the first having replaced the
\* selection of another node.
C13_Witness ==
  /\ ev.name = "click"
  /\ ev.prevPt = ev.pt
  /\ InReach(ev.pt) # {}
  /\ ev.prevSel \notin {NoNode, FirstInReach(ev.pt)}
  /\ ev.sel = FirstInReach(ev.pt)
  /\ view.selectedNode = NoNode

\* C14: a click with no positioned node less than 15 pixels from the pointer
\* leaves the selection none, whatever it was, and the canvas drawn by the
\* render that follows carries no outline.
C14_MissClears ==
  ev.name = "click" /\ view.graphData # NoData /\ InReach(ev.pt) = {} =>
     /\ view.selectedNode = NoNode
     /\ view.shownSel = NoNode
     /\ Outlined(view.canvas) = {}

\* A click at exactly 15 pixels from the one node near it cleared a selection
\* whose node carried the outline.
C14_Witness ==
  /\ ev.name = "click"
  /\ InReach(ev.pt) = {}
  /\ ev.sel \in NodeIds(getGraph(view.graphData)) \cap DOMAIN view.nodePositions
  /\ Dist2(view.nodePositions[ev.sel], ev.pt) = 22500
  /\ view.canvas.before.strokeStyle = "#ffffff"
  /\ view.selectedNode = NoNode
  /\ Outlined(view.canvas) = {}

\* ------------------------------------------------------- layout
\* C15: the position map the layout effect computes for a snapshot of n nodes
\* has exactly n entries, one per node id, and the node at index i (from 0) is
\* at angle i / n of a full turn around the centre, at a distance of at least
\* 150 and less than 250 pixels.
C15_RingLayout ==
  view.queued.set =>
     LET g == getGraph(view.graphData)
         n == Len(g.nodes)
         pos == view.queued.pos
     IN /\ DOMAIN pos = NodeIds(g)
        /\ Cardinality(DOMAIN pos) = n
        /\ \A i \in 0..n-1 :
              \E radius \in 150..249 : pos[g.nodes[i + 1].id] = RingPoint(i, n, radius)

\* The layout of a snapshot of three nodes, with two different radii.
C15_Witness ==
  /\ view.queued.set
  /\ Len(getGraph(view.graphData).nodes) = 3
  /\ \E radius \in 151..249 :
        view.queued.pos[getGraph(view.graphData).nodes[3].id] = RingPoint(2, 3, radius)
  /\ view.queued.pos[getGraph(view.graphData).nodes[2].id] = RingPoint(1, 3, 150)

\* C16: a step computes a new position map exactly when it changes the snapshot
\* the component holds, and the position map held changes only by taking over
\* the map so computed: no re-render, selection change or click moves a node.
C16_RecomputedIffSnapshotChanged ==
  [][view'.mounted =>
       /\ (view'.queued.set /\ view'.queued # view.queued) <=> view'.graphData # view.graphData
       /\ view'.nodePositions # view.nodePositions =>
             view.queued.set /\ view'.nodePositions = view.queued.pos]_vars

\* C17: once a snapshot has landed and no computed position map is waiting to
\* be taken over, the position map held has entries only for ids of nodes of
\* that snapshot; for a snapshot without nodes it is empty.
C17_PositionsOfSnapshotOnly ==
  view.mounted /\ view.graphData # NoData /\ ~view.queued.set =>
     DOMAIN view.nodePositions \subseteq NodeIds(getGraph(view.graphData))

\* ------------------------------------------------------- draw pass
\* The segments on the canvas, in the order drawn.
Segments(canvas) ==
  LET IsLine(c) == c.op = "line" IN SelectSeq(Calls(canvas), IsLine)

\* The edges of g whose source and target are both ids of nodes of g.
LiveEdges(g) ==
  LET BothPresent(e) == e.source \in NodeIds(g) /\ e.target \in NodeIds(g)
  IN SelectSeq(g.edges, BothPresent)

\* C18: a draw pass draws one segment for each edge whose two ends are nodes
\* of the snapshot drawn, duplicates included, from the position of its source
\* to the position of its target, and no segment for any other edge.
C18_SegmentPerLiveEdge ==
  view.canvas.drawn =>
     LET live == LiveEdges(getGraph(view.canvas.snap))
         segs == Segments(view.canvas)
         pos == view.canvas.pos
     IN /\ Len(segs) = Len(live)
        /\ \A i \in 1..Len(live) :
              /\ live[i].source \in DOMAIN pos
              /\ live[i].target \in DOMAIN pos
              /\ segs[i].a = pos[live[i].source]
              /\ segs[i].b = pos[live[i].target]

\* C19: the calls of a draw pass are those a pass over a new context makes for
\* the same snapshot, positions and selection: whatever the pass before left in
\* the context, two passes on one triple make the same calls.
C19_DrawIdempotent ==
  view.canvas.drawn =>
     Calls(view.canvas) =
        Draw(getGraph(view.canvas.snap), view.canvas.pos, view.canvas.sel, NewCtx).cmds

\* A pass that drew segments and no outline over a context that the pass
\* before, drawing an outline, left with the white stroke of width 2.
C19_Witness ==
  /\ view.canvas.drawn
  /\ view.canvas.before.strokeStyle = "#ffffff"
  /\ view.canvas.before.lineWidth = 2
  /\ Len(Segments(view.canvas)) > 0
  /\ Outlined(view.canvas) = {}

\* C20: while a node is selected, the details panel shows label, type and data
\* of the node with that id in the current snapshot, and that node and no
\* other carries the outline on the canvas.
C20_OutlinedIsDetailed ==
  view.mounted /\ view.selectedNode # NoNode =>
     /\ \E i \in 1..Len(getGraph(view.graphData).nodes) :
           LET node == getGraph(view.graphData).nodes[i] IN
           /\ node.id = view.selectedNode
           /\ selectedNodeData(view) =
                 [label |-> node.label, type |-> node.type, data |-> node.data]
     /\ Outlined(view.canvas) = {view.selectedNode}

\* ------------------------------------------------------- malformed entries
\* The nodes of g that have an id and a label.
WellFormedIds(g) ==
  {g.nodes[i].id : i \in {k \in 1..Len(g.nodes) : {"id", "label"} \subseteq DOMAIN g.nodes[k]}}

\* The edges of g that have a source and a target.
WellFormedEdges(g) ==
  LET Whole(e) == {"source", "target"} \subseteq DOMAIN e IN SelectSeq(g.edges, Whole)

\* The nodes that have a disc on the canvas.
Discs(canvas) ==
  LET cmds == Calls(canvas) IN
  {cmds[i].node : i \in {j \in 1..Len(cmds) : cmds[j].op = "fill"}}

\* C21: no draw pass throws, and once the layout of a snapshot has been taken
\* over, the canvas shows exactly the nodes that have id and label and no more
\* segments than there are edges with source and target.
C21_MalformedDropped ==
  /\ ~view.crashed
  /\ view.mounted /\ view.canvas.drawn /\ ~view.queued.set /\ view.nodePositions # EmptyMap =>
        /\ Discs(view.canvas) = WellFormedIds(getGraph(view.canvas.snap))
        /\ Len(Segments(view.canvas)) <= Len(WellFormedEdges(getGraph(view.canvas.snap)))

OpenLoads == {l \in notes.loads : StreamAlive(notes, l)}

\* C25: once every load of the mounted MemoryStream has been answered and the
\* most recently issued one succeeded, the notes on display are the ones that
\* load returned.
C25_LatestLoadShown ==
  (/\ notes.view = "dashboard"
   /\ OpenLoads = {}
   /\ notes.latest.done = "ok") => notes.notes = notes.latest.data

\* C26: whenever no stream request of the mounted MemoryStream is outstanding,
\* loading is false, whether the last request succeeded or failed.
C26_LoadingCleared ==
  (notes.view = "dashboard" /\ OpenLoads = {}) => ~notes.loading

\* ------------------------------------------------------- snapshot after a write
\* C23: once a think has succeeded and graph fetching has settled with a
\* successful fetch, the snapshot the observed graph query holds was requested
\* after the thought was stored (its version is the server's).
C23_FinalSnapshotAfterWrite ==
  (/\ agent.lastResponse > 0
   /\ Graph.observers > 0
   /\ ~Graph.fetching
   /\ Graph.status = "success") => Graph.data = srv

C27_QuietAfterUnmount ==
  (~dash.last.mounted /\ ~dash.mounted) =>
     /\ dash.nextFetch = dash.last.nextFetch
     /\ dash.dashboardData = dash.last.data
     /\ dash.input = dash.last.input
     /\ agent = dash.last.agent

\* ------------------------------------------------------- failed dashboard fetch
\* C28: a dashboard fetch that fails leaves dashboardData as it was.
C28_FailedFetchKeepsData ==
  dash.last.name = "fetchFailed" => dash.dashboardData = dash.last.data

\* The refresh of a Dashboard that shows data failed.
C28_Witness ==
  /\ dash.last.name = "fetchFailed"
  /\ dash.mounted
  /\ dash.last.data # NoData
  /\ dash.dashboardData # NoData

\* ------------------------------------------------------- refresh after a think
\* The timeouts set, and the timeouts fired, by the last step.
TimersSet == dash.timers \ dash.last.timers

TimersFired == dash.last.timers \ dash.timers

\* C29: the step that completes a successful think sets exactly one timeout,
\* after the thought was stored, and clears the input of the form that sent it
\* (if still mounted); when that timeout fires, one dashboard fetch goes out,
\* answered from data at least as new as that thought. The step that completes
\* a failed think keeps the input and sets no timeout, and no other step sets
\* one.
C29_RefreshAfterThink ==
  /\ dash.last.name = "thinkOk" =>
        /\ Cardinality(TimersSet) = 1
        /\ TimersFired = {}
        /\ dash.nextFetch = dash.last.nextFetch
        /\ \A tm \in TimersSet :
              /\ tm.ver = srv
              /\ DashAlive(dash, tm.inst) => dash.input = ""
  /\ dash.last.name = "thinkFail" =>
        /\ dash.input = dash.last.input
        /\ dash.timers = dash.last.timers
        /\ dash.nextFetch = dash.last.nextFetch
  /\ dash.last.name = "timer" =>
        /\ Cardinality(TimersFired) = 1
        /\ dash.nextFetch = dash.last.nextFetch + 1
        /\ \A tm \in TimersFired : \E f \in dash.fetches :
              f.id = dash.last.nextFetch /\ f.inst = tm.inst /\ f.ver >= tm.ver
  /\ dash.last.name # "thinkOk" => TimersSet = {}

\* The refresh scheduled by a successful think of the mounted form went out,
\* after a think of the same form had failed.
C29_Witness ==
  /\ dash.last.name = "timer"
  /\ dash.mounted
  /\ dash.input = ""
  /\ agent.lastResponse = 2
  /\ \E f \in dash.fetches : f.inst = dash.inst /\ f.ver = 1 /\ f.id = dash.last.nextFetch

====
